---- MODULE Spec2Model ----
(***************************************************************************)
(* Model of the accounts application: the password-reset flow              *)
(* (RequestPasswordResetEmail, PasswordTokenCheckAPI,                      *)
(* SetNewPasswordAPIView), ChangePasswordView, the two profile update      *)
(* views and DeleteUserView of accounts/views.py, with the serializers of  *)
(* accounts/serializers.py and the routes of accounts/urls.py.             *)
(*                                                                         *)
(* Strings of the transport encoding are sequences of one-character        *)
(* strings; byte strings are sequences of numbers 0..255.                  *)
(***************************************************************************)
EXTENDS Integers, Sequences, FiniteSets, TLC

VARIABLES
  users,     \* the rows of User: primary key -> record (views.py:23)
  now,       \* the clock the token generator reads (views.py:90, 115)
  nextSalt,  \* the salt the next set_password draws (views.py:40, 145)
  issued,    \* the tokens make_token has computed (serializers.py:45)
  revoked,   \* the tokens computed for a user before a change of the user's
             \* password hash completed (views.py:41, 146)
  req,       \* the request being served, NoRequest between requests
  resp,      \* its response
  procs      \* the concurrent set-new-password workers (views.py:131-148)

vars == <<users, now, nextSalt, issued, revoked, req, resp, procs>>

(***************************************************************************)
(* Bounds of the model.                                                    *)
(***************************************************************************)
\* the clock runs from 0 to MaxTime
MaxTime == 2
\* salts 0 .. MaxSalt-1 can be drawn by set_password
MaxSalt == 3
\* at most MaxIssued distinct tokens are computed by make_token in a run
MaxIssued == 1
\* settings.PASSWORD_RESET_TIMEOUT, in clock ticks
PASSWORD_RESET_TIMEOUT == 1

(***************************************************************************)
(* urlsafe_base64_encode / urlsafe_base64_decode (django.utils.http) and   *)
(* smart_str (django.utils.encoding), as the views call them.              *)
(***************************************************************************)
B64Alphabet ==
  << "A","B","C","D","E","F","G","H","I","J","K","L","M","N","O","P",
     "Q","R","S","T","U","V","W","X","Y","Z","a","b","c","d","e","f",
     "g","h","i","j","k","l","m","n","o","p","q","r","s","t","u","v",
     "w","x","y","z","0","1","2","3","4","5","6","7","8","9","-","_" >>

IsB64Char(c) == \E i \in 1..Len(B64Alphabet) : B64Alphabet[i] = c

B64Value(c) == (CHOOSE i \in 1..Len(B64Alphabet) : B64Alphabet[i] = c) - 1

B64Char(v) == B64Alphabet[v + 1]

\* base64.urlsafe_b64encode(s).rstrip(b"\n=")
RECURSIVE urlsafe_base64_encode(_)
urlsafe_base64_encode(bs) ==
  IF Len(bs) = 0 THEN << >>
  ELSE IF Len(bs) = 1 THEN
    << B64Char(bs[1] \div 4), B64Char((bs[1] % 4) * 16) >>
  ELSE IF Len(bs) = 2 THEN
    << B64Char(bs[1] \div 4),
       B64Char((bs[1] % 4) * 16 + bs[2] \div 16),
       B64Char((bs[2] % 16) * 4) >>
  ELSE
    << B64Char(bs[1] \div 4),
       B64Char((bs[1] % 4) * 16 + bs[2] \div 16),
       B64Char((bs[2] % 16) * 4 + bs[3] \div 64),
       B64Char(bs[3] % 64) >>
    \o urlsafe_base64_encode(SubSeq(bs, 4, Len(bs)))

\* the bytes of a sequence of 6-bit values whose length is not 1 mod 4
RECURSIVE B64Bytes(_)
B64Bytes(vs) ==
  IF Len(vs) < 2 THEN << >>
  ELSE IF Len(vs) = 2 THEN
    << vs[1] * 4 + vs[2] \div 16 >>
  ELSE IF Len(vs) = 3 THEN
    << vs[1] * 4 + vs[2] \div 16, (vs[2] % 16) * 16 + vs[3] \div 4 >>
  ELSE
    << vs[1] * 4 + vs[2] \div 16,
       (vs[2] % 16) * 16 + vs[3] \div 4,
       (vs[3] % 4) * 64 + vs[4] >>
    \o B64Bytes(SubSeq(vs, 5, Len(vs)))

\* urlsafe_base64_decode(s): s is padded with len(s) % 4 '=' characters and
\* handed to base64.urlsafe_b64decode, which skips the characters outside the
\* alphabet and fails (binascii.Error, re-raised as ValueError) when the data
\* characters left over after the last full group of four are not completed
\* by the padding.
urlsafe_base64_decode(s) ==
  LET data == SelectSeq(s, IsB64Char)
      vals == [i \in 1..Len(data) |-> B64Value(data[i])]
      pads == Len(s) % 4
      rest == Len(data) % 4
      ok   == \/ rest = 0
              \/ rest = 2 /\ pads >= 2
              \/ rest = 3 /\ pads >= 1
  IN IF ok THEN [ok |-> TRUE, bytes |-> B64Bytes(vals)]
     ELSE [ok |-> FALSE, bytes |-> << >>]

IsCont(b) == b >= 128 /\ b <= 191

\* str(bytes, "utf-8", "strict") succeeds
RECURSIVE IsUtf8(_)
IsUtf8(bs) ==
  IF Len(bs) = 0 THEN TRUE
  ELSE IF bs[1] < 128 THEN IsUtf8(Tail(bs))
  ELSE IF bs[1] >= 194 /\ bs[1] <= 223 THEN
    /\ Len(bs) >= 2 /\ IsCont(bs[2])
    /\ IsUtf8(SubSeq(bs, 3, Len(bs)))
  ELSE IF bs[1] >= 224 /\ bs[1] <= 239 THEN
    /\ Len(bs) >= 3 /\ IsCont(bs[2]) /\ IsCont(bs[3])
    /\ (bs[1] = 224 => bs[2] >= 160)
    /\ (bs[1] = 237 => bs[2] <= 159)
    /\ IsUtf8(SubSeq(bs, 4, Len(bs)))
  ELSE IF bs[1] >= 240 /\ bs[1] <= 244 THEN
    /\ Len(bs) >= 4 /\ IsCont(bs[2]) /\ IsCont(bs[3]) /\ IsCont(bs[4])
    /\ (bs[1] = 240 => bs[2] >= 144)
    /\ (bs[1] = 244 => bs[2] <= 143)
    /\ IsUtf8(SubSeq(bs, 5, Len(bs)))
  ELSE FALSE

IsDigit(b) == b >= 48 /\ b <= 57

\* the text is the decimal numeral of a primary key; of the texts UidInputs
\* decodes to, the integer conversion of the lookup accepts exactly these
IsNumeral(bs) == Len(bs) > 0 /\ \A i \in 1..Len(bs) : IsDigit(bs[i])

RECURSIVE NumeralValue(_)
NumeralValue(bs) ==
  IF Len(bs) = 0 THEN 0
  ELSE NumeralValue(SubSeq(bs, 1, Len(bs) - 1)) * 10 + (bs[Len(bs)] - 48)

\* smart_bytes(user.id): the decimal numeral of the id, as ASCII bytes
RECURSIVE smart_bytes(_)
smart_bytes(n) ==
  IF n < 10 THEN << 48 + n >>
  ELSE smart_bytes(n \div 10) \o << 48 + (n % 10) >>

\* the uidb64 of a user id
EncodeId(n) == urlsafe_base64_encode(smart_bytes(n))

\* the uidb64 path segments a client may send
UidInputs ==
  { EncodeId(1), EncodeId(2), EncodeId(3),
    <<"Y","W","J","j">>,      \* decodes to "abc"
    <<"_","w">>,              \* decodes to the byte 0xFF
    <<"M">>,                  \* one data character: not base64
    <<"M","!","Q">> }         \* '!' is skipped: decodes to "1"

\* urlsafe_base64_decode on the path segments of the model
DecodeTable == [s \in UidInputs |-> urlsafe_base64_decode(s)]


(***************************************************************************)
(* The identity store and the values the requests carry.                   *)
(***************************************************************************)
InitialUsers == {1, 2}

\* primary keys an administrator may name in a delete request
PrimaryKeys == {1, 2, 3}

Passwords == {"pw1", "pw2"}

\* request.data.get('current_password') is None when the field is absent
NoPassword == "None"

WellFormedEmails == {"a@x.io", "b@x.io", "c@x.io"}

MalformedEmails == {"nope"}

InitialEmail(u) == IF u = 1 THEN "a@x.io" ELSE "b@x.io"

ProfileFields == {"email", "name", "phone_number", "employee_id", "profile_pic"}

\* the values a profile field may take in a request body
FieldValues(f) == IF f = "email" THEN WellFormedEmails \cup MalformedEmails
                  ELSE {"v2"}

\* a hash that depends on the raw password alone
set_password_unsalted(raw, salt) == [raw |-> raw, salt |-> 0]

\* make_password(raw): the hash of a raw password under a salt
set_password(raw, salt) == [raw |-> raw, salt |-> salt]

\* a comparison that accepts every submitted password
check_password_any(hash, raw) == TRUE

\* check_password(raw, hash); None never matches
check_password(hash, raw) == raw # NoPassword /\ hash.raw = raw

InitialUser(u) ==
  [id |-> u, email |-> InitialEmail(u), name |-> "v1", phone_number |-> "v1",
   employee_id |-> "v1", profile_pic |-> "v1",
   password |-> set_password("pw1", u - 1)]

(***************************************************************************)
(* PasswordResetTokenGenerator (django.contrib.auth.tokens): a token is    *)
(* the timestamp and a keyed hash of the user's primary key, password      *)
(* hash, email and the timestamp.  A record stands for the string the      *)
(* generator returns; Garbage is a string the generator never returns.     *)
(* The hash also covers last_login, which no view of views.py writes.      *)
(***************************************************************************)
Garbage ==
  [wellformed |-> FALSE, uid |-> 0, password |-> set_password("", 0),
   email |-> "", ts |-> 0]

\* _make_token_with_timestamp(user, timestamp, secret)
make_token_with_timestamp(user, ts) ==
  [wellformed |-> TRUE, uid |-> user.id, password |-> user.password,
   email |-> user.email, ts |-> ts]

\* make_token(user) at time t
make_token(user, t) == make_token_with_timestamp(user, t)

\* a check that never looks at the age of the token
check_token_no_expiry(user, token, t) ==
  /\ token.wellformed
  /\ token = make_token_with_timestamp(user, token.ts)

\* a check against the user the token names, not the user of the request
check_token_any_user(user, token, t) ==
  /\ token.wellformed
  /\ \E u \in DOMAIN users : token = make_token_with_timestamp(users[u], token.ts)
  /\ ~ (t - token.ts > PASSWORD_RESET_TIMEOUT)

\* check_token(user, token) at time t
check_token(user, token, t) ==
  /\ token.wellformed
  /\ token = make_token_with_timestamp(user, token.ts)
  /\ ~ (t - token.ts > PASSWORD_RESET_TIMEOUT)

(***************************************************************************)
(* Requests and responses.                                                 *)
(***************************************************************************)
NoBody == [f \in {} |-> ""]

NoRequest ==
  [op |-> "none", caller |-> 0, uidb64 |-> << >>, token |-> Garbage,
   email |-> "", current |-> "", new |-> "", body |-> NoBody]

Response(status, body) == [status |-> status, body |-> body, exc |-> "none"]

\* an exception no handler catches: the framework answers 500
Unhandled(exc) == [status |-> 500, body |-> "server_error", exc |-> exc]

NoResponse == Response(0, "none")

\* the token path segments a client may send
TokenInputs == issued \cup {Garbage}

\* id = smart_str(urlsafe_base64_decode(uidb64)); user = User.objects.get(id=id)
Resolve(uidb64) ==
  LET d == DecodeTable[uidb64] IN
  IF ~ d.ok THEN [kind |-> "ValueError", id |-> 0]
  ELSE IF ~ IsUtf8(d.bytes) THEN [kind |-> "DjangoUnicodeDecodeError", id |-> 0]
  ELSE IF ~ IsNumeral(d.bytes) THEN [kind |-> "ValueError", id |-> 0]
  ELSE IF NumeralValue(d.bytes) \notin DOMAIN users
       THEN [kind |-> "DoesNotExist", id |-> NumeralValue(d.bytes)]
  ELSE [kind |-> "found", id |-> NumeralValue(d.bytes)]

\* User.objects.filter(email=email)
UsersByEmail(email) == {u \in DOMAIN users : users[u].email = email}

\* user.save() of a user whose password hash was replaced
SavePassword(u, hash) == [users EXCEPT ![u].password = hash]

\* the tokens computed for user u so far
IssuedFor(u) == {t \in issued : t.uid = u}

\* a user object not yet loaded
NoUser ==
  [id |-> 0, email |-> "", name |-> "", phone_number |-> "",
   employee_id |-> "", profile_pic |-> "", password |-> set_password("", 0)]

\* the workers that serve set-new-password requests concurrently
Procs == {"w1", "w2"}

IdleProc ==
  [pc |-> "idle", user |-> NoUser, uidb64 |-> << >>, token |-> Garbage,
   new |-> "", resp |-> NoResponse]

Init ==
  /\ users = [u \in InitialUsers |-> InitialUser(u)]
  /\ now = 0
  /\ nextSalt = Cardinality(InitialUsers)
  /\ issued = {}
  /\ revoked = {}
  /\ req = NoRequest
  /\ resp = NoResponse
  /\ procs = [p \in Procs |-> IdleProc]

(***************************************************************************)
(* POST request-reset-email                                                *)
(***************************************************************************)
\* ResetPasswordEmailRequestSerializer.validate(attrs): the attrs when a user
\* has the email, None (no return statement is reached) otherwise
ValidateReturnsAttrs(email) == UsersByEmail(email) # {}

\* the exceptions Serializer.run_validation / serializer.data raise when
\* validate() returned None: the assertion of run_validation, or with
\* assertions compiled out the attribute lookup on None
NoneValidatedExceptions == {"AssertionError", "AttributeError"}

\* RequestPasswordResetEmail.post after the serializer ran
RequestResetResponse(email, exc) ==
  IF email \notin WellFormedEmails THEN Response(400, "serializer_errors")
  ELSE IF ~ ValidateReturnsAttrs(email) THEN Unhandled(exc)
  ELSE IF UsersByEmail(email) # {}
       \* urlsafe_base64_encode is not a name of views.py
       THEN Unhandled("NameError")
  ELSE Response(200, "reset_sent")

RequestPasswordResetEmail ==
  /\ req = NoRequest
  /\ \E email \in WellFormedEmails \cup MalformedEmails :
     \E exc \in NoneValidatedExceptions :
    LET found == IF email \in WellFormedEmails THEN UsersByEmail(email) ELSE {}
        made  == {make_token(users[u], now) : u \in found}
    IN /\ Cardinality(issued \cup made) <= MaxIssued
       /\ issued' = issued \cup made
       /\ req' = [NoRequest EXCEPT !.op = "request_reset", !.email = email]
       /\ resp' = RequestResetResponse(email, exc)
       /\ UNCHANGED <<users, now, nextSalt, revoked, procs>>

(***************************************************************************)
(* GET password-reset-confirm/<uidb64>/<token>/                            *)
(***************************************************************************)
PasswordTokenCheckResponse(uidb64, token) ==
  LET r == Resolve(uidb64) IN
  IF r.kind = "DjangoUnicodeDecodeError" THEN Response(401, "token_not_valid")
  ELSE IF r.kind # "found" THEN Unhandled(r.kind)
  ELSE IF ~ check_token(users[r.id], token, now)
       THEN Response(401, "token_not_valid")
  ELSE Response(200, "confirm_form")

PasswordTokenCheck ==
  /\ req = NoRequest
  /\ \E uidb64 \in UidInputs : \E token \in TokenInputs :
    /\ req' = [NoRequest EXCEPT !.op = "token_check", !.uidb64 = uidb64,
                                !.token = token]
    /\ resp' = PasswordTokenCheckResponse(uidb64, token)
    /\ UNCHANGED <<users, now, nextSalt, issued, revoked, procs>>

(***************************************************************************)
(* POST set-new-password (SetNewPasswordAPIView)                           *)
(***************************************************************************)
SetNewPasswordResponse(uidb64, token) ==
  LET r == Resolve(uidb64) IN
  IF r.kind = "DjangoUnicodeDecodeError" THEN Response(200, "confirm_form_error")
  ELSE IF r.kind = "DoesNotExist" THEN Response(404, "user_not_found")
  ELSE IF r.kind # "found" THEN Unhandled(r.kind)
  ELSE IF ~ check_token(users[r.id], token, now)
       THEN Response(200, "confirm_form_error")
  ELSE Response(200, "password_reset")

\* a handler that saves for every user it finds
SetNewPasswordWritesUnchecked(uidb64, token) ==
  Resolve(uidb64).kind = "found"

\* the handler reaches user.set_password(new_password); user.save()
SetNewPasswordWrites(uidb64, token) ==
  LET r == Resolve(uidb64) IN
  r.kind = "found" /\ check_token(users[r.id], token, now)

SetNewPassword ==
  /\ req = NoRequest
  /\ \E uidb64 \in UidInputs : \E token \in TokenInputs : \E new \in Passwords :
    LET r == Resolve(uidb64) IN
    /\ req' = [NoRequest EXCEPT !.op = "set_new_password", !.uidb64 = uidb64,
                                !.token = token, !.new = new]
    /\ resp' = SetNewPasswordResponse(uidb64, token)
    /\ IF SetNewPasswordWrites(uidb64, token)
       THEN /\ nextSalt < MaxSalt
            /\ users' = SavePassword(r.id, set_password(new, nextSalt))
            /\ nextSalt' = nextSalt + 1
            /\ revoked' = revoked \cup IssuedFor(r.id)
       ELSE UNCHANGED <<users, nextSalt, revoked>>
    /\ UNCHANGED <<now, issued, procs>>

(***************************************************************************)
(* PUT change-password (ChangePasswordView), caller authenticated          *)
(***************************************************************************)
ChangePasswordResponse(caller, current) ==
  IF ~ check_password(users[caller].password, current)
  THEN Response(400, "current_password_incorrect")
  ELSE Response(200, "password_updated")

ChangePassword ==
  /\ req = NoRequest
  /\ \E caller \in DOMAIN users :
     \E current \in Passwords \cup {NoPassword} : \E new \in Passwords :
    /\ req' = [NoRequest EXCEPT !.op = "change_password", !.caller = caller,
                                !.current = current, !.new = new]
    /\ resp' = ChangePasswordResponse(caller, current)
    /\ IF check_password(users[caller].password, current)
       THEN /\ nextSalt < MaxSalt
            /\ users' = SavePassword(caller, set_password(new, nextSalt))
            /\ nextSalt' = nextSalt + 1
            /\ revoked' = revoked \cup IssuedFor(caller)
       ELSE UNCHANGED <<users, nextSalt, revoked>>
    /\ UNCHANGED <<now, issued, procs>>

(***************************************************************************)
(* DELETE user (DeleteUserView), caller an administrator                   *)
(***************************************************************************)
DeleteUser ==
  /\ req = NoRequest
  /\ \E pk \in PrimaryKeys :
    /\ req' = [NoRequest EXCEPT !.op = "delete_user", !.caller = pk]
    /\ IF pk \in DOMAIN users
       THEN /\ users' = [u \in DOMAIN users \ {pk} |-> users[u]]
            /\ resp' = Response(200, "user_deleted")
       ELSE /\ users' = users
            /\ resp' = Response(404, "user_not_found")
    /\ UNCHANGED <<now, nextSalt, issued, revoked, procs>>

\* time passes
Tick ==
  /\ req = NoRequest
  /\ now < MaxTime
  /\ now' = now + 1
  /\ UNCHANGED <<users, nextSalt, issued, revoked, req, resp, procs>>

\* the response is sent; the next request can be taken
ReturnResponse ==
  /\ req # NoRequest
  /\ req' = NoRequest
  /\ resp' = NoResponse
  /\ UNCHANGED <<users, now, nextSalt, issued, revoked, procs>>

Next ==
  \/ RequestPasswordResetEmail
  \/ PasswordTokenCheck
  \/ SetNewPassword
  \/ ChangePassword
  \/ DeleteUser
  \/ Tick
  \/ ReturnResponse

Spec == Init /\ [][Next]_vars

(***************************************************************************)
(* PUT profile/ (UserProfileView, routed by urls.py) and                   *)
(* UpdateProfileView.put                                                   *)
(***************************************************************************)
\* the fields RegisterSerializer.create reads unconditionally from the
\* validated data: the model requires them
RequiredFields == {"email", "name", "phone_number", "employee_id"}

\* the request bodies: a value for each field of a subset of the fields
Bodies ==
  UNION { { b \in [S -> UNION {FieldValues(f) : f \in ProfileFields}] :
              \A f \in S : b[f] \in FieldValues(f) } :
          S \in SUBSET ProfileFields }

\* serializer.is_valid(): the email is well formed and no other user has
\* it; a full update names every required field
IsValidUpdate(caller, body, partial) ==
  /\ "email" \in DOMAIN body =>
       /\ body["email"] \in WellFormedEmails
       /\ UsersByEmail(body["email"]) \subseteq {caller}
  /\ partial \/ RequiredFields \subseteq DOMAIN body

\* serializer.save(): the validated fields are set on the instance
ApplyBody(user, body) ==
  [f \in DOMAIN user |-> IF f \in DOMAIN body THEN body[f] ELSE user[f]]

\* UpdateModelMixin.update / UpdateProfileView.put with the given partial flag
UpdateProfile(op, partial) ==
  /\ req = NoRequest
  /\ \E caller \in DOMAIN users : \E body \in Bodies :
       /\ req' = [NoRequest EXCEPT !.op = op, !.caller = caller, !.body = body]
       /\ IF IsValidUpdate(caller, body, partial)
          THEN /\ users' = [users EXCEPT ![caller] = ApplyBody(@, body)]
               /\ resp' = Response(200, "profile")
          ELSE /\ users' = users
               /\ resp' = Response(400, "serializer_errors")
       /\ UNCHANGED <<now, nextSalt, issued, revoked, procs>>

\* RetrieveUpdateAPIView.put -> update(partial=False)
UserProfilePut == UpdateProfile("profile_put", FALSE)

\* UserSerializer(user, data=request.data, partial=True)
UpdateProfilePut == UpdateProfile("update_profile_put", TRUE)

NextProfile ==
  \/ UserProfilePut
  \/ UpdateProfilePut
  \/ ReturnResponse

SpecProfile == Init /\ [][NextProfile]_vars

(***************************************************************************)
(* SetNewPasswordAPIView.post served by concurrent workers: the handler    *)
(* up to the token check, and set_password with save, are separate steps.  *)
(***************************************************************************)
\* lines 137-143 and the except clauses: load the user, check the token
ConfirmCheck(p) ==
  /\ procs[p].pc = "idle"
  /\ \E uidb64 \in UidInputs : \E token \in TokenInputs : \E new \in Passwords :
       LET r == Resolve(uidb64) IN
       /\ procs' = [procs EXCEPT ![p] =
            IF SetNewPasswordWrites(uidb64, token)
            THEN [pc |-> "checked", user |-> users[r.id], uidb64 |-> uidb64,
                  token |-> token, new |-> new, resp |-> NoResponse]
            ELSE [pc |-> "done", user |-> NoUser, uidb64 |-> uidb64,
                  token |-> token, new |-> new,
                  resp |-> SetNewPasswordResponse(uidb64, token)]]
       /\ UNCHANGED <<users, now, nextSalt, issued, revoked, req, resp>>

\* lines 145-148: set_password on the loaded object, save() writes its row
ConfirmSave(p) ==
  /\ procs[p].pc = "checked"
  /\ LET u == procs[p].user.id IN
     /\ users' = [users EXCEPT ![u] =
          [procs[p].user EXCEPT !.password = set_password(procs[p].new, nextSalt)]]
     /\ revoked' = revoked \cup IssuedFor(u)
  /\ nextSalt' = nextSalt + 1
  /\ procs' = [procs EXCEPT ![p].pc = "done",
                            ![p].resp = Response(200, "password_reset")]
  /\ UNCHANGED <<now, issued, req, resp>>

NextRace ==
  \/ RequestPasswordResetEmail
  \/ ReturnResponse
  \/ Tick
  \/ \E p \in Procs : ConfirmCheck(p)
  \/ \E p \in Procs : ConfirmSave(p)

SpecRace == Init /\ [][NextRace]_vars

(***************************************************************************)
(* The claims.                                                             *)
(***************************************************************************)
\* a step in which the handler of op serves a request
Handles(op) == req = NoRequest /\ req'.op = op

\* the request of the state decodes to an existing user
ResolvedUser(r) == Resolve(r.uidb64)

\* the responses that tell the client a token was accepted
AcceptedBodies == {"confirm_form", "password_reset"}

\* the records of the users other than u, and u's profile fields, are kept
OnlyPasswordOf(u) ==
  /\ DOMAIN users' = DOMAIN users
  /\ \A v \in DOMAIN users : v # u => users'[v] = users[v]
  /\ \A f \in ProfileFields \cup {"id"} : users'[u][f] = users[u][f]

\* C1: every request-reset-email request with a well-formed email is answered
\* 200 with the success body, whether or not a user has the email.
C1_AntiEnumeration ==
  (req.op = "request_reset" /\ req.email \in WellFormedEmails)
    => resp = Response(200, "reset_sent")

\* C2: a token issued for a user before a completed change of that user's
\* password hash is accepted by no later link-check or confirm, and no such
\* request changes a user record.
C2_ChangeInvalidatesTokens ==
  [][ ((Handles("token_check") \/ Handles("set_new_password"))
        /\ req'.token \in revoked)
      => (resp'.body \notin AcceptedBodies /\ users' = users) ]_vars

\* a confirm presents, inside the window and with the user's own encoded id,
\* a token issued before the user's password changed
C2_Witness ==
  /\ req.op = "set_new_password"
  /\ req.token \in revoked
  /\ ResolvedUser(req).kind = "found"
  /\ ResolvedUser(req).id = req.token.uid
  /\ now - req.token.ts <= PASSWORD_RESET_TIMEOUT
  /\ resp.body = "confirm_form_error"

\* C3: the link-check answers 200 with the validity payload when the id
\* decodes, the user exists and the token verifies, and 401 with the generic
\* error in every other case.
C3_LinkCheckOutcomes ==
  req.op = "token_check" =>
    resp = IF /\ ResolvedUser(req).kind = "found"
              /\ check_token(users[ResolvedUser(req).id], req.token, now)
           THEN Response(200, "confirm_form")
           ELSE Response(401, "token_not_valid")

\* C4: the confirm answers 200 on success, 404 when the decoded id matches
\* no user, and 401 with the generic error when the token is invalid or the
\* id cannot be decoded.
C4_ConfirmStatuses ==
  [][ Handles("set_new_password") =>
      resp' = IF ResolvedUser(req').kind = "DoesNotExist"
                THEN Response(404, "user_not_found")
              ELSE IF /\ ResolvedUser(req').kind = "found"
                      /\ check_token(users[ResolvedUser(req').id], req'.token, now)
                THEN Response(200, "password_reset")
              ELSE Response(401, "token_not_valid") ]_vars

\* C5: a confirm changes the user records only if, when it is served, the id
\* decodes, the user exists and the token verifies against the user's current
\* state; it then changes the password hash of that user alone.
C5_ConfirmRevalidates ==
  [][ (Handles("set_new_password") /\ users' # users)
      => /\ ResolvedUser(req').kind = "found"
         /\ req'.token.wellformed
         /\ req'.token = make_token_with_timestamp(
                           users[ResolvedUser(req').id], req'.token.ts)
         /\ now - req'.token.ts <= PASSWORD_RESET_TIMEOUT
         /\ OnlyPasswordOf(ResolvedUser(req').id) ]_vars

\* a confirm was refused for an existing user although the token was computed
\* by the generator
C5_Witness ==
  /\ req.op = "set_new_password"
  /\ ResolvedUser(req).kind = "found"
  /\ req.token \in issued
  /\ resp.body = "confirm_form_error"

\* C6: a link-check or confirm that presents the encoded id of an existing
\* user u with a token issued for another user is refused and changes no
\* user record.
C6_TokenBoundToUser ==
  [][ ((Handles("token_check") \/ Handles("set_new_password"))
        /\ req'.token \in issued
        /\ ResolvedUser(req').kind = "found"
        /\ req'.token.uid # ResolvedUser(req').id)
      => (resp'.body \notin AcceptedBodies /\ users' = users) ]_vars

\* a confirm presents u's encoded id with a token that is still valid for
\* the other user it was issued for
C6_Witness ==
  /\ req.op = "set_new_password"
  /\ req.token \in issued
  /\ ResolvedUser(req).kind = "found"
  /\ req.token.uid # ResolvedUser(req).id
  /\ req.token.uid \in DOMAIN users
  /\ check_token(users[req.token.uid], req.token, now)

\* C7: a token presented after the allowed window has elapsed since it was
\* issued is refused by the link-check and by the confirm, and the confirm
\* changes no user record.
C7_TokensExpire ==
  [][ ((Handles("token_check") \/ Handles("set_new_password"))
        /\ req'.token \in issued
        /\ now - req'.token.ts > PASSWORD_RESET_TIMEOUT)
      => (resp'.body \notin AcceptedBodies /\ users' = users) ]_vars

\* a confirm presents, with the user's own encoded id, a token older than the
\* window although the user's password hash and email are those of issuance
C7_Witness ==
  /\ req.op = "set_new_password"
  /\ req.token \in issued
  /\ ResolvedUser(req).kind = "found"
  /\ req.token = make_token_with_timestamp(users[ResolvedUser(req).id], req.token.ts)
  /\ now - req.token.ts > PASSWORD_RESET_TIMEOUT
  /\ resp.body = "confirm_form_error"

\* C8: change-password answers 400 and changes nothing when current_password
\* is not the caller's password; otherwise it answers 200, the caller's
\* password becomes new_password and nothing else changes.
C8_ChangePassword ==
  [][ Handles("change_password") =>
      IF users[req'.caller].password.raw = req'.current
      THEN /\ resp'.status = 200
           /\ users'[req'.caller].password.raw = req'.new
           /\ users'[req'.caller].password # users[req'.caller].password
           /\ OnlyPasswordOf(req'.caller)
      ELSE /\ resp'.status = 400
           /\ users' = users ]_vars

\* a change-password with the right current password has replaced the hash
C8_Witness ==
  /\ req.op = "change_password"
  /\ resp = Response(200, "password_updated")
  /\ users[req.caller].password.raw = req.new
  /\ users[req.caller].password.salt >= Cardinality(InitialUsers)

\* C9: PUT profile/ with any subset of the profile fields (the values valid:
\* a well-formed email no other user has) succeeds and sets exactly the
\* submitted fields of the caller's record, all else unchanged.
C9_ProfilePutIsPartial ==
  [][ (Handles("profile_put")
        /\ ("email" \in DOMAIN req'.body =>
              /\ req'.body["email"] \in WellFormedEmails
              /\ UsersByEmail(req'.body["email"]) \subseteq {req'.caller}))
      => /\ resp'.status = 200
         /\ DOMAIN users' = DOMAIN users
         /\ \A u \in DOMAIN users : u # req'.caller => users'[u] = users[u]
         /\ \A f \in DOMAIN users[req'.caller] :
              users'[req'.caller][f] =
                IF f \in DOMAIN req'.body THEN req'.body[f]
                ELSE users[req'.caller][f] ]_vars

\* C10 as stated: of two confirm requests served concurrently with the same
\* token for the same user, at most one overwrites the password hash and
\* answers success.
C10_SingleUseUnderInterleaving ==
  \A p, q \in Procs :
    (p # q /\ procs[p].token = procs[q].token /\ procs[p].token \in issued
       /\ procs[p].uidb64 = procs[q].uidb64)
    => ~ (procs[p].resp.body = "password_reset"
            /\ procs[q].resp.body = "password_reset")

\* C10 amended: a confirm whose token check starts after the save of another
\* change of the user's password has completed, with a token issued before
\* that save, is refused.
C10_SingleUseWhenSequential ==
  [][ \A p \in Procs :
        (procs[p].pc = "idle" /\ procs'[p].pc # "idle"
           /\ procs'[p].token \in revoked)
        => (procs'[p].pc = "done" /\ procs'[p].resp.body # "password_reset") ]_vars

\* one worker has overwritten the password with a token and the other, whose
\* check started later with the same token and encoded id, was refused
C10_Witness ==
  \E p, q \in Procs :
    /\ p # q
    /\ procs[p].resp.body = "password_reset"
    /\ procs[q].token = procs[p].token
    /\ procs[q].uidb64 = procs[p].uidb64
    /\ procs[q].pc = "done"
    /\ procs[q].resp.body = "confirm_form_error"

====
